---- MODULE Spec2Model ----
(***************************************************************************)
(* Hybrid retrieval of dobedh/joo_chatbot: src/src/hybrid_search.py        *)
(* (HybridSearch) over the document store of src/src/korean_vector_store.py *)
(*                                                                         *)
(* Scores are Python floats in the source; here they are exact fractions   *)
(* <<numerator, denominator>> with a positive denominator, compared by     *)
(* cross multiplication.  Weights are kept in tenths (0.6 is 6).           *)
(***************************************************************************)
EXTENDS Integers, Sequences, FiniteSets, TLC

(***************************************************************************)
(* Bounds of the model.                                                    *)
(***************************************************************************)
MaxDocs == 3      \* largest corpus held by the document store
MaxK == 2         \* largest k a caller passes to search
MaxTextLen == 3   \* longest text handed to the tokenizer on its own
MaxTokenizeCalls == 2  \* _tokenize calls observed on one text
MaxTurns == 2     \* most questions kept in one conversation
MaxDistance == 3  \* largest distance a store reports to _dense_search
MaxAnswer == 2    \* longest list a store hands to _dense_search

(***************************************************************************)
(* Program constants.                                                      *)
(***************************************************************************)
KeyLen == 100     \* doc.page_content[:100]
OverFetch == 3    \* k * 3 if rerank else k
FilterFetch == 2  \* self.search(query, k=k*2)
DefaultWeight == 6  \* HybridSearch(vector_store, dense_weight=0.6), in tenths
One == 10         \* the 1 of "1 - dense_weight", weights being kept in tenths

(***************************************************************************)
(* Texts.  A text is a sequence of characters; a character is a one-symbol *)
(* string.  "G" and "Y" stand for two Hangul syllables, "N" for the Hangul *)
(* syllable that is a stop word on its own; upper-case Latin is written    *)
(* with a leading "^".                                                     *)
(***************************************************************************)
Hangul == {"G", "Y", "N"}
LowerLatin == {"a", "b", "x", "y", "z", "q"}
UpperLatin == {"^a", "^b"}
Digits == {"9", "5"}

\* A function written with |->, with every value computed once.
table(f) == f @@ <<>>

Rep(c, n) == [i \in 1..n |-> c]

TextNames == {"T1", "T2", "T3", "T4"}

\* T1 and T2 are 101 characters long and differ only in character 101, so
\* their first KeyLen characters agree.  T3 and T4 are shorter than KeyLen.
TextOf ==
  "T1" :> (<<"a", " ">> \o Rep("z", 98) \o <<"x">>)
  @@ "T2" :> (<<"a", " ">> \o Rep("z", 98) \o <<"y">>)
  @@ "T3" :> <<"^a", " ", "G", "Y", " ", "N">>
  @@ "T4" :> <<"q", " ", "9", ".", "5", "%">>

QueryNames == {"qa", "qb"}

\* qc is a third query, asked only where two fetch windows are compared.
AllQueries == QueryNames \cup {"qc"}

\* qa shares the token "a" with T1, T2 and T3; qb shares no token with any
\* text; qc has the tokens of qa and other distances.
QueryText ==
  "qa" :> <<"^a">>
  @@ "qb" :> <<"Y", " ", "N", " ", "^b">>
  @@ "qc" :> <<"a">>

(***************************************************************************)
(* _tokenize: lower-case, re.findall of                                    *)
(*   [Hangul]+ | [a-z]+ | [0-9]+\.?[0-9]*%?                                *)
(* scanning left to right, then stop-word removal.                         *)
(***************************************************************************)
lower(c) == CASE c = "^a" -> "a" [] c = "^b" -> "b" [] OTHER -> c

lower_text(text) == [i \in 1..Len(text) |-> lower(text[i])]

\* Length of the longest run of characters of class cls starting at i.
RECURSIVE run(_, _, _)
run(text, i, cls) ==
  IF i <= Len(text) /\ text[i] \in cls THEN 1 + run(text, i + 1, cls) ELSE 0

opt(text, i, c) == IF i <= Len(text) /\ text[i] = c THEN 1 ELSE 0

\* Length matched by [0-9]+\.?[0-9]*%? at i (0 when it does not match).
number_len(text, i) ==
  LET d1 == run(text, i, Digits)
      p == opt(text, i + d1, ".")
      d2 == run(text, i + d1 + p, Digits)
      pc == opt(text, i + d1 + p + d2, "%")
  IN IF d1 = 0 THEN 0 ELSE d1 + p + d2 + pc

\* Length of the match the alternation finds at i.
match_len(text, i) ==
  IF run(text, i, Hangul) > 0 THEN run(text, i, Hangul)
  ELSE IF run(text, i, LowerLatin) > 0 THEN run(text, i, LowerLatin)
  ELSE number_len(text, i)

RECURSIVE findall(_, _)
findall(text, i) ==
  IF i > Len(text) THEN <<>>
  ELSE LET n == match_len(text, i)
       IN IF n = 0 THEN findall(text, i + 1)
          ELSE <<SubSeq(text, i, i + n - 1)>> \o findall(text, i + n)

stopwords == {<<"N">>}

tokenize(text) ==
  SelectSeq(findall(lower_text(text), 1), LAMBDA t : t \notin stopwords)

\* tokens = self._tokenize(doc), in _build_bm25_index
tokenize_doc(text) == tokenize(text)

\* Variant: the query is tokenized without case folding.
tokenize_query_as_typed(text) ==
  SelectSeq(findall(text, 1), LAMBDA t : t \notin stopwords)

\* query_tokens = self._tokenize(query), in _sparse_search
tokenize_query(text) == tokenize(text)

DocTokens == table([t \in TextNames |-> tokenize_doc(TextOf[t])])
QueryTokens == table([q \in AllQueries |-> tokenize_query(QueryText[q])])

Range(s) == {s[i] : i \in DOMAIN s}

SharesToken(q, t) == Range(QueryTokens[q]) \cap Range(DocTokens[t]) # {}

(***************************************************************************)
(* Fractions.                                                              *)
(***************************************************************************)
Zero == <<0, 1>>
Less(a, b) == a[1] * b[2] < b[1] * a[2]
Same(a, b) == a[1] * b[2] = b[1] * a[2]
Max(a, b) == IF Less(a, b) THEN b ELSE a

\* A sequence given as a function, as the tuple of its elements.
list(s) == s \o <<>>

\* The permutation of 1..n that lists i before j whenever before(i, j);
\* before is a strict total order on 1..n.
Sorted(n, before(_, _)) ==
  list([r \in 1..n |->
          CHOOSE i \in 1..n : Cardinality({j \in 1..n : before(j, i)}) = r - 1])

Take(s, n) == SubSeq(s, 1, IF n < Len(s) THEN n ELSE Len(s))

(***************************************************************************)
(* The document store (KoreanVectorStore over a Chroma collection).        *)
(* The embedding model is a fixed function of the text, so the distance    *)
(* between a query and a chunk is a fixed table.                           *)
(***************************************************************************)
PageOf == "T1" :> 5 @@ "T2" :> 12 @@ "T3" :> 12 @@ "T4" :> 5

Distance ==
  "qa" :> ("T3" :> 0 @@ "T1" :> 1 @@ "T2" :> 2 @@ "T4" :> 4)
  @@ "qb" :> ("T1" :> 0 @@ "T4" :> 1 @@ "T2" :> 2 @@ "T3" :> 3)
  @@ "qc" :> ("T4" :> 1 @@ "T1" :> 2 @@ "T2" :> 3 @@ "T3" :> 4)

Injective(s) == \A i, j \in DOMAIN s : s[i] = s[j] => i = j

\* Collections: up to MaxDocs distinct chunks in insertion order.
Collections ==
  {[documents |-> d,
    metadatas |-> [i \in DOMAIN d |-> [page |-> PageOf[d[i]]]],
    ids |-> [i \in DOMAIN d |-> i]] :
     d \in {s \in UNION {[1..n -> TextNames] : n \in 0..MaxDocs} : Injective(s)}}

Document(text, meta) == [page_content |-> text, metadata |-> meta]

\* KoreanVectorStore.similarity_search: the k nearest chunks, nearest first,
\* each with its distance written into its metadata.
distance_to(coll, query, i) == Distance[query][coll.documents[i]]

\* The collection's positions, nearest to the query first.
nearest(coll, query) ==
  Sorted(Len(coll.documents), LAMBDA i, j :
     distance_to(coll, query, i) < distance_to(coll, query, j)
     \/ (distance_to(coll, query, i) = distance_to(coll, query, j) /\ i < j))

to_documents(coll, query, positions) ==
  list([r \in DOMAIN positions |->
          Document(coll.documents[positions[r]],
                   [page |-> coll.metadatas[positions[r]].page,
                    distance |-> distance_to(coll, query, positions[r])])])

similarity_search(coll, query, k) ==
  to_documents(coll, query, Take(nearest(coll, query), k))

(***************************************************************************)
(* BM25Okapi (rank_bm25) is a library: its fitted model is represented by  *)
(* the score array get_scores returns for each tokenized query, one score  *)
(* per corpus position.  A score sums a term over the query tokens, so a   *)
(* chunk sharing no token with the query scores 0; otherwise the score may *)
(* be positive, zero or negative (a non-positive idf).                     *)
(***************************************************************************)
ScoreValues == {-1, 0, 1, 2}

BM25Okapi(docs) ==
  {f \in [{QueryTokens[q] : q \in AllQueries} -> [1..Len(docs) -> ScoreValues]] :
     \A q \in AllQueries : \A i \in 1..Len(docs) :
        ~SharesToken(q, docs[i]) => f[QueryTokens[q]][i] = 0}

(***************************************************************************)
(* State.                                                                  *)
(***************************************************************************)
VARIABLES
  collection,     \* vector_store.collection: documents, metadatas, ids
  argsort_ties,   \* how this build's np.argsort (quicksort) orders equal scores
  state,          \* "unbuilt", "ready", or "failed" (the constructor raised)
  dense_weight,   \* self.dense_weight, in tenths
  sparse_weight,  \* self.sparse_weight, in tenths
  documents,      \* self.documents
  metadatas,      \* self.metadatas
  ids,            \* self.ids
  bm25,           \* self.bm25
  call,           \* the last search call: <<query, k, rerank>>, or <<>>
  dense_results,  \* its dense_results
  sparse_results, \* its sparse_results
  doc_scores,     \* its doc_scores, in insertion order
  results,        \* the list it returned
  earlier,        \* <<call, list it returned, whether a different call was
                  \* served since>> for a call the caller remembers, or <<>>
  available,      \* whether the store's similarity_search works or raises
  last_store_op,  \* the last call made on the store: "none", "add", "clear"
  error,          \* the exception the last call on the instance raised, or ""
  store_calls,    \* similarity_search calls the last search made
  corpus_at_search, \* the store's documents when the last search ran
  filter_call,    \* <<k, filter_dict>> of the last search_with_filter, or <<>>
  filtered,       \* the list it returned
  tok_text,       \* a text handed to _tokenize
  tok_out,        \* <<call site, tokens>> of each _tokenize call on tok_text
  retriever,      \* GeminiRAGPipeline.retriever: "none" or "CustomRetriever"
  memory,         \* self.memory.chat_memory.messages
  memory_session, \* for each message of memory, whose call added it
  response,       \* what the last query returned, or <<>>
  raised,         \* the exception the last query let through, or ""
  prompt,         \* <<the prompt sent to the LLM by the last query>>, or <<>>
  prompt_session, \* <<who made that query, for each message of the
                  \* prompt's history, whose call added it to the memory>>
  last_clear,     \* <<who made the last clear_memory call, for each message
                  \* it dropped, whose call had added it>>
  messages,       \* st.session_state.messages of each browser session
  initialized,    \* st.session_state.initialized of each browser session
  cached          \* <<what initialize_system returned>> once it has run

vars == <<collection, argsort_ties, state, dense_weight, sparse_weight,
          documents, metadatas, ids, bm25, call, dense_results,
          sparse_results, doc_scores, results, earlier, available,
          last_store_op, error, store_calls, corpus_at_search, filter_call,
          filtered, tok_text, tok_out, retriever, memory, memory_session,
          response, raised, prompt, prompt_session, last_clear,
          messages, initialized, cached>>

store == <<collection, argsort_ties, available, last_store_op>>
instance == <<state, dense_weight, sparse_weight, documents, metadatas, ids, bm25>>
last_search == <<call, dense_results, sparse_results, doc_scores, results,
                 error, store_calls, corpus_at_search, filter_call, filtered>>
tokenizer == <<tok_text, tok_out>>
pipeline == <<retriever, memory, memory_session, response, raised, prompt,
              prompt_session, last_clear>>
sessions == <<messages, initialized, cached>>
chat == <<pipeline, sessions>>

DenseWeights == {0, 6, 10}
Ks == 0..MaxK

(***************************************************************************)
(* HybridSearch._dense_search                                              *)
(***************************************************************************)
get_distance(metadata) ==
  IF "distance" \in DOMAIN metadata THEN metadata.distance ELSE 0

\* Variant: similarity = 1 - distance.
to_similarity_one_minus(distance) == <<1 - distance, 1>>

to_similarity(distance) == <<1, 1 + distance>>

with_similarity(docs) ==
  list([i \in DOMAIN docs |->
          [doc |-> docs[i],
           score |-> to_similarity(get_distance(docs[i].metadata))]])

dense_search(query, k) == with_similarity(similarity_search(collection, query, k))

(***************************************************************************)
(* HybridSearch._sparse_search                                             *)
(***************************************************************************)
\* np.argsort(scores): ascending; equal scores come out in an order the sort
\* kind decides.
argsort(scores) ==
  Sorted(Len(scores), LAMBDA i, j :
     scores[i] < scores[j]
     \/ (scores[i] = scores[j]
         /\ IF argsort_ties = "stable" THEN i < j ELSE i > j))

\* [::-1]
reversed(s) == list([r \in DOMAIN s |-> s[Len(s) + 1 - r]])

\* Variant: the BM25 score is passed on as it is.
normalize_skipped(score) == <<score, 1>>

normalize(score) == <<score, score + 1>>

\* Variant: >= in place of >.
positive_or_zero(score) == score >= 0

\* scores[idx] > 0
positive(score) == score > 0

\* Variant: the metadata one position earlier (an index that is off by one).
metadata_at_previous(idx) == metadatas[IF idx > 1 THEN idx - 1 ELSE Len(metadatas)]

\* self.metadatas[idx] if idx < len(self.metadatas) else {}
metadata_at(idx) == IF idx <= Len(metadatas) THEN metadatas[idx] ELSE <<>>

\* The loop over top_indices.
sparse_documents(scores, top_indices) ==
  list([r \in DOMAIN top_indices |->
          [doc |-> Document(documents[top_indices[r]],
                            metadata_at(top_indices[r])),
           score |-> normalize(scores[top_indices[r]])]])

top_positive(scores, k) ==
  SelectSeq(Take(reversed(argsort(scores)), k),
            LAMBDA idx : positive(scores[idx]))

\* Variant: the score array of the previous call is reused when there is one.
get_scores_reused(query_tokens) ==
  IF call = <<>> THEN bm25[query_tokens] ELSE bm25[tokenize(QueryText[call[1]])]

\* self.bm25.get_scores(query_tokens)
get_scores(query_tokens) == bm25[query_tokens]

sparse_search(query, k) ==
  LET scores == get_scores(tokenize_query(QueryText[query]))
  IN sparse_documents(scores, top_positive(scores, k))

(***************************************************************************)
(* HybridSearch._combine_results                                           *)
(***************************************************************************)
\* doc.page_content[:100]
prefix(text) == Take(text, KeyLen)

KeyOf == table([t \in TextNames |-> prefix(TextOf[t])])

\* Variant: the whole text is the key.
key_of_whole_text(doc) == TextOf[doc.page_content]

key_of(doc) == KeyOf[doc.page_content]

\* doc_scores is a Python dict: entries in insertion order, one per key.  An
\* entry's key is the key of the document it was created for.
new_entry(doc) == [doc |-> doc, dense_score |-> Zero, sparse_score |-> Zero]

has_key(scores, key) == \E i \in DOMAIN scores : key_of(scores[i].doc) = key

\* Variant: a new entry for every candidate, whether or not its key is known.
ensure_key_always_new(scores, doc) == Append(scores, new_entry(doc))

\* if key not in doc_scores: doc_scores[key] = {...}
ensure_key(scores, doc) ==
  IF has_key(scores, key_of(doc)) THEN scores ELSE Append(scores, new_entry(doc))

\* doc_scores[key]['dense_score'] = score
assign_dense(scores, doc, score) ==
  list([i \in DOMAIN scores |->
          IF key_of(scores[i].doc) = key_of(doc)
            THEN [scores[i] EXCEPT !.dense_score = score]
            ELSE scores[i]])

set_dense(scores, doc, score) == assign_dense(ensure_key(scores, doc), doc, score)

\* doc_scores[key]['sparse_score'] = score
assign_sparse(scores, doc, score) ==
  list([i \in DOMAIN scores |->
          IF key_of(scores[i].doc) = key_of(doc)
            THEN [scores[i] EXCEPT !.sparse_score = score]
            ELSE scores[i]])

set_sparse(scores, doc, score) == assign_sparse(ensure_key(scores, doc), doc, score)

RECURSIVE add_dense(_, _, _)
add_dense(scores, dense, i) ==
  IF i > Len(dense) THEN scores
  ELSE add_dense(set_dense(scores, dense[i].doc, dense[i].score), dense, i + 1)

RECURSIVE add_sparse(_, _, _)
add_sparse(scores, sparse, i) ==
  IF i > Len(sparse) THEN scores
  ELSE add_sparse(set_sparse(scores, sparse[i].doc, sparse[i].score), sparse, i + 1)

aggregate(dense, sparse) == add_sparse(add_dense(<<>>, dense, 1), sparse, 1)

\* Variant: dense_weight applied to both components.
combined_score_one_weight(dw, sw, entry) ==
  <<dw * entry.dense_score[1] * entry.sparse_score[2]
      + dw * entry.sparse_score[1] * entry.dense_score[2],
    One * entry.dense_score[2] * entry.sparse_score[2]>>

\* self.dense_weight * dense_score + self.sparse_weight * sparse_score
combined_score(dw, sw, entry) ==
  <<dw * entry.dense_score[1] * entry.sparse_score[2]
      + sw * entry.sparse_score[1] * entry.dense_score[2],
    One * entry.dense_score[2] * entry.sparse_score[2]>>

\* final_scores.sort(key=lambda x: x[1], reverse=True): stable, so entries of
\* equal score keep the order they have in doc_scores.
in_order(s, order) == list([r \in DOMAIN order |-> s[order[r]]])

\* Variant: the list is returned as it was filled, not sorted.
sort_skipped(final_scores) == final_scores

\* Variant: sorted ascending and then reversed, which reverses ties.
sort_ascending_reversed(final_scores) ==
  in_order(final_scores,
           Sorted(Len(final_scores), LAMBDA i, j :
              Less(final_scores[j].score, final_scores[i].score)
              \/ (Same(final_scores[i].score, final_scores[j].score) /\ i > j)))

\* Variant: reverse=True left out.
sort_ascending(final_scores) ==
  in_order(final_scores,
           Sorted(Len(final_scores), LAMBDA i, j :
              Less(final_scores[i].score, final_scores[j].score)
              \/ (Same(final_scores[i].score, final_scores[j].score) /\ i < j)))

sort_descending(final_scores) ==
  in_order(final_scores,
           Sorted(Len(final_scores), LAMBDA i, j :
              Less(final_scores[j].score, final_scores[i].score)
              \/ (Same(final_scores[i].score, final_scores[j].score) /\ i < j)))

\* The loop that fills final_scores.
final_scores_of(dw, sw, scores) ==
  list([i \in DOMAIN scores |->
          [doc |-> scores[i].doc, score |-> combined_score(dw, sw, scores[i])]])

\* Variant: the slice is left out.
truncate_skipped(ranked, k) == ranked

\* final_scores[:k]
truncate(ranked, k) == Take(ranked, k)

docs_of(ranked) == list([r \in DOMAIN ranked |-> ranked[r].doc])

combine_results(dw, sw, scores, k) ==
  docs_of(truncate(sort_descending(final_scores_of(dw, sw, scores)), k))

(***************************************************************************)
(* HybridSearch.__init__ with _build_bm25_index                            *)
(***************************************************************************)
\* Variant: the sparse weight is a fixed 0.4.
complement_of_default(dw) == 4

\* self.sparse_weight = 1 - dense_weight
complement(dw) == One - dw

\* Variant: an empty enumeration is not looked for.
nothing_stored_unchecked(coll) == FALSE

\* not all_data or not all_data.get('documents')
nothing_stored(coll) == coll.documents = <<>>

\* Variant: the index of a ready instance can be built again.
constructible_again == state # "failed"

\* __init__ runs once for an instance, and is the only caller of
\* _build_bm25_index.
constructible == state = "unbuilt"

Constructing(dw) ==
  /\ constructible
  /\ dense_weight' = dw
  /\ sparse_weight' = complement(dw)
  /\ IF nothing_stored(collection)
       THEN \* raise ValueError
            /\ state' = "failed"
            /\ error' = "ValueError"
            /\ UNCHANGED <<documents, metadatas, ids, bm25>>
       ELSE /\ documents' = collection.documents
            /\ metadatas' = collection.metadatas
            /\ ids' = collection.ids
            /\ bm25' \in BM25Okapi(collection.documents)
            /\ state' = "ready"
            /\ error' = ""
  /\ UNCHANGED <<store, call, dense_results, sparse_results, doc_scores,
                 results, store_calls, corpus_at_search, filter_call,
                 filtered, earlier, tokenizer>>

\* HybridSearch built by a caller of its own.
Construct(dw) ==
  /\ Constructing(dw)
  /\ UNCHANGED chat

(***************************************************************************)
(* HybridSearch.search                                                     *)
(***************************************************************************)
\* Variant: k candidates whether or not rerank is set.
candidates_without_overfetch(k, rerank) == k

candidates(k, rerank) == IF rerank THEN k * OverFetch ELSE k

\* Variant: a failure of the store is not noticed.
dense_failed_unnoticed == FALSE

\* self.vector_store.similarity_search(query, k=k) raises
dense_failed == ~available

\* Variant: the snapshot is taken again from the store at every search.
snapshot_refreshed ==
  <<collection.documents, collection.metadatas, collection.ids, bm25>>

\* search reads self.documents, self.metadatas and self.bm25 and assigns
\* none of them.
snapshot_after_search == <<documents, metadatas, ids, bm25>>

\* The body of search.  When the store's similarity_search raises, the
\* exception leaves _dense_search and search at once: nothing after line 91
\* runs and no list is returned.
Searching(query, k, rerank) ==
  /\ state = "ready"
  /\ call' = <<query, k, rerank>>
  /\ store_calls' = 1
  /\ corpus_at_search' = collection.documents
  /\ IF ~dense_failed
       THEN /\ dense_results' = dense_search(query, candidates(k, rerank))
            /\ sparse_results' = sparse_search(query, candidates(k, rerank))
            /\ doc_scores' = aggregate(dense_results', sparse_results')
            /\ results' = combine_results(dense_weight, sparse_weight,
                                          doc_scores', k)
            /\ error' = ""
       ELSE /\ dense_results' = <<>>
            /\ sparse_results' = <<>>
            /\ doc_scores' = <<>>
            /\ results' = <<>>
            /\ error' = "StoreError"
  /\ earlier' = IF earlier = <<>> THEN earlier
                ELSE <<earlier[1], earlier[2],
                       earlier[3] \/ earlier[1] # <<query, k, rerank>>>>
  /\ documents' = snapshot_after_search[1]
  /\ metadatas' = snapshot_after_search[2]
  /\ ids' = snapshot_after_search[3]
  /\ bm25' = snapshot_after_search[4]
  /\ UNCHANGED <<store, state, dense_weight, sparse_weight, tokenizer>>

Search(query, k, rerank) ==
  /\ Searching(query, k, rerank)
  /\ filter_call' = <<>>
  /\ filtered' = <<>>
  /\ UNCHANGED chat

(***************************************************************************)
(* HybridSearch.search_with_filter.  A filter_dict is the sequence of its  *)
(* <<key, value>> items; the empty one stands for None and {} alike.       *)
(***************************************************************************)
Filters ==
  { <<>>,
    << <<"page", 5>> >>,
    << <<"page", 12>> >>,
    << <<"page", 5>>, <<"section", 1>> >> }

\* Variant: every document passes.
matches_anything(doc, filter_dict) == TRUE

\* match stays True: doc.metadata.get(key) == value for every item
matches(doc, filter_dict) ==
  \A i \in DOMAIN filter_dict :
     /\ filter_dict[i][1] \in DOMAIN doc.metadata
     /\ doc.metadata[filter_dict[i][1]] = filter_dict[i][2]

\* filtered: the matching documents of all_results, in their order
RECURSIVE keep_matching(_, _, _)
keep_matching(all_results, filter_dict, i) ==
  IF i > Len(all_results) THEN <<>>
  ELSE (IF matches(all_results[i], filter_dict)
          THEN <<all_results[i]>> ELSE <<>>)
       \o keep_matching(all_results, filter_dict, i + 1)

\* Variant: the list is cut to k before the filter is applied.
filter_results_cut_first(all_results, k, filter_dict) ==
  IF filter_dict = <<>>
    THEN Take(all_results, k)
    ELSE keep_matching(Take(all_results, k), filter_dict, 1)

filter_results(all_results, k, filter_dict) ==
  IF filter_dict = <<>>
    THEN Take(all_results, k)
    ELSE Take(keep_matching(all_results, filter_dict, 1), k)

SearchWithFilter(query, k, filter_dict) ==
  /\ Searching(query, k * FilterFetch, TRUE)
  /\ filter_call' = <<k, filter_dict>>
  /\ filtered' = IF error' = ""
                   THEN filter_results(results', k, filter_dict)
                   ELSE <<>>
  /\ UNCHANGED chat

(***************************************************************************)
(* The document store's own operations, called by whoever holds the store. *)
(***************************************************************************)
Batches == {<<>>, <<"T3">>, <<"T4", "T1">>, <<"T1", "T4", "T2">>}

EmptyCollection == [documents |-> <<>>, metadatas |-> <<>>, ids |-> <<>>]

\* collection.add of a batch whose ids are doc_0000.. by position: an id
\* the collection already holds is not inserted again.
RECURSIVE add_batch(_, _, _)
add_batch(coll, texts, i) ==
  IF i > Len(texts) THEN coll
  ELSE add_batch(
         IF \E n \in DOMAIN coll.ids : coll.ids[n] = i
           THEN coll
           ELSE [documents |-> Append(coll.documents, texts[i]),
                 metadatas |-> Append(coll.metadatas, [page |-> PageOf[texts[i]]]),
                 ids |-> Append(coll.ids, i)],
         texts, i + 1)

AddDocuments(texts) ==
  /\ texts # <<>>
  /\ Len(add_batch(collection, texts, 1).documents) <= MaxDocs
  /\ collection' = add_batch(collection, texts, 1)
  /\ last_store_op' = "add"
  /\ UNCHANGED <<argsort_ties, available, instance, last_search, earlier,
                 tokenizer, chat>>

Clear ==
  /\ collection' = EmptyCollection
  /\ last_store_op' = "clear"
  /\ UNCHANGED <<argsort_ties, available, instance, last_search, earlier,
                 tokenizer, chat>>

\* The store (its embedding model, its Chroma client) stops or resumes
\* answering similarity_search.
Outage ==
  /\ available
  /\ available' = FALSE
  /\ UNCHANGED <<collection, argsort_ties, last_store_op, instance,
                 last_search, earlier, tokenizer, chat>>

Restore ==
  /\ ~available
  /\ available' = TRUE
  /\ UNCHANGED <<collection, argsort_ties, last_store_op, instance,
                 last_search, earlier, tokenizer, chat>>

(***************************************************************************)
(* _tokenize called on one text from its two call sites, in whatever state *)
(* the instance is in.                                                     *)
(***************************************************************************)
TokenizerAlphabet == {"a", "^a", "G", "N", "9", ".", "%", " "}

TokenizerInputs == UNION {[1..n -> TokenizerAlphabet] : n \in 0..MaxTextLen}

Tokenize(site) ==
  /\ Len(tok_out) < MaxTokenizeCalls
  /\ tok_out' = Append(tok_out,
                       <<site, state,
                         IF site = "build" THEN tokenize_doc(tok_text)
                                           ELSE tokenize_query(tok_text)>>)
  /\ UNCHANGED <<store, instance, last_search, earlier, tok_text, chat>>

(***************************************************************************)
(* _dense_search over whatever the vector_store object answers: any list   *)
(* of Documents, each with or without a distance in its metadata.          *)
(***************************************************************************)
StoreAnswers ==
  LET docs == {Document(t, [page |-> PageOf[t]]) : t \in {"T3", "T4"}}
                \cup {Document(t, [page |-> PageOf[t], distance |-> d]) :
                        t \in {"T3", "T4"}, d \in 0..MaxDistance}
  IN UNION {[1..n -> docs] : n \in 0..MaxAnswer}

DenseSearchOver(docs) ==
  /\ state = "ready"
  /\ dense_results' = with_similarity(docs)
  /\ UNCHANGED <<store, instance, call, sparse_results, doc_scores, results,
                 error, store_calls, corpus_at_search, filter_call, filtered,
                 earlier, tokenizer, chat>>

\* The caller keeps the list the last call returned.
Remember ==
  /\ call # <<>>
  /\ earlier = <<>>
  /\ earlier' = <<call, results, FALSE>>
  /\ UNCHANGED <<store, instance, last_search, tokenizer, chat>>

(***************************************************************************)
(* GeminiRAGPipeline                                                       *)
(***************************************************************************)
PipelineK == 5       \* self.hybrid_search.search(question, k=5)
HistoryWindow == 4   \* self.memory.chat_memory.messages[-4:]
SourceLen == 300     \* doc.page_content[:300]

Questions == QueryNames
Answers == {"r1", "r2"}

\* self.llm.predict(prompt): a text, or an exception of the API client.
LLMOutcomes ==
  {[raised |-> FALSE, text |-> a] : a \in Answers}
    \cup {[raised |-> TRUE, text |-> "APIError"]}

\* KoreanVectorStore.exists: count > 0
exists(coll) == Len(coll.documents) > 0

\* __init__: the memory starts empty, HybridSearch is built with
\* dense_weight 0.6, then _initialize_chain raises unless the store exists
\* and sets the retriever.  A constructor that raised leaves no pipeline.
Building ==
  /\ Constructing(DefaultWeight)
  /\ retriever' = IF state' = "ready" /\ exists(collection)
                    THEN "CustomRetriever" ELSE "none"
  /\ memory' = <<>>
  /\ memory_session' = <<>>
  /\ UNCHANGED <<response, raised, prompt, prompt_session, last_clear>>

Answer(kind, text) == [kind |-> kind, text |-> text]

\* messages[-4:]
last_messages(msgs) ==
  SubSeq(msgs, IF Len(msgs) > HistoryWindow THEN Len(msgs) - HistoryWindow + 1
                                            ELSE 1, Len(msgs))

role_of(msg) == IF msg.type = "human" THEN "user" ELSE "assistant"

\* The chat_history of the prompt: "role: content" of the last messages.
chat_history(mem) ==
  LET last == last_messages(mem)
  IN list([i \in 1..Len(last) |-> <<role_of(last[i]), last[i].content>>])

format_prompt(docs, mem, question) ==
  [context |-> list([i \in 1..Len(docs) |-> docs[i].page_content]),
   chat_history |-> chat_history(mem),
   question |-> question]

get_page(metadata) ==
  IF "page" \in DOMAIN metadata THEN metadata.page ELSE -1

format_sources(docs) ==
  list([i \in 1..Len(docs) |->
          [index |-> i,
           page |-> get_page(docs[i].metadata),
           content |-> docs[i].page_content,
           cut |-> Len(TextOf[docs[i].page_content]) > SourceLen]])

\* Variant: only the question is added to the memory.
update_memory_question_only(mem, question, text) ==
  Append(mem, [type |-> "human", content |-> question])

\* add_user_message(question); add_ai_message(response)
update_memory(mem, question, text) ==
  mem \o <<[type |-> "human", content |-> question],
           [type |-> "ai", content |-> text]>>

\* Variant: an exception leaves query.
uncaught(e, mem, sent) ==
  [answer |-> Answer("none", ""), sources |-> <<>>, sent |-> sent,
   memory |-> mem, raised |-> e]

\* except Exception as e: the answer is the error message
caught(e, mem, sent) ==
  [answer |-> Answer("error", e), sources |-> <<>>, sent |-> sent,
   memory |-> mem, raised |-> ""]

\* The body of query after the hybrid search: what it returns, the prompt
\* it sent, the memory it leaves and the exception it lets through.
query_after_search(mem, question, search_error, docs, llm) ==
  IF search_error # ""
    THEN caught(search_error, mem, <<>>)
    ELSE IF docs = <<>>
      THEN [answer |-> Answer("not_found", ""), sources |-> <<>>,
            sent |-> <<>>, memory |-> mem, raised |-> ""]
      ELSE IF llm.raised
        THEN caught(llm.text, mem, <<format_prompt(docs, mem, question)>>)
        ELSE [answer |-> Answer("llm", llm.text),
              sources |-> format_sources(docs),
              sent |-> <<format_prompt(docs, mem, question)>>,
              memory |-> update_memory(mem, question, llm.text),
              raised |-> ""]

\* query(question), called by who; llm is what the LLM call does if it is
\* made.  A constructed pipeline always has its retriever, so the branch
\* of line 93 is never taken.
Querying(who, question, llm) ==
  /\ retriever # "none"
  /\ Len(memory) < 2 * MaxTurns
  /\ Searching(question, PipelineK, TRUE)
  /\ filter_call' = <<>>
  /\ filtered' = <<>>
  /\ LET out == query_after_search(memory, question, error', results', llm)
     IN /\ response' = [answer |-> out.answer, sources |-> out.sources]
        /\ raised' = out.raised
        /\ prompt' = out.sent
        /\ prompt_session' = IF out.sent = <<>> THEN <<>>
                               ELSE <<who, last_messages(memory_session)>>
        /\ memory' = out.memory
        /\ memory_session' =
             memory_session
               \o [i \in 1..(Len(out.memory) - Len(memory)) |-> who]
  /\ UNCHANGED <<retriever, last_clear>>

\* clear_memory(), called by who.
ClearingMemory(who) ==
  /\ retriever # "none"
  /\ memory' = <<>>
  /\ memory_session' = <<>>
  /\ last_clear' = <<who, memory_session>>
  /\ UNCHANGED <<retriever, response, raised, prompt, prompt_session>>

\* The pipeline used by one caller.
NewPipeline == Building /\ UNCHANGED sessions

Query(question, llm) == Querying("caller", question, llm) /\ UNCHANGED sessions

ClearMemory ==
  /\ ClearingMemory("caller")
  /\ UNCHANGED <<store, instance, last_search, earlier, tokenizer, sessions>>

(***************************************************************************)
(* app_gemini: browser sessions, each a run of main() over its own         *)
(* st.session_state; initialize_system is under st.cache_resource, so what *)
(* its first run returned is handed to every session.                      *)
(***************************************************************************)
Sessions == {"s1", "s2"}

\* main(), lines 234-241, in a session not yet initialized.
Open(s) ==
  /\ ~initialized[s]
  /\ IF cached = <<>>
       THEN /\ Building
            /\ cached' = <<retriever' # "none">>
       ELSE /\ UNCHANGED <<store, instance, last_search, earlier, tokenizer,
                           pipeline>>
            /\ cached' = cached
  /\ initialized' = [initialized EXCEPT ![s] = cached'[1]]
  /\ UNCHANGED messages

\* main(), lines 345-387: the session's user types a question.
Ask(s, question, llm) ==
  /\ initialized[s]
  /\ Len(messages[s]) < 2 * MaxTurns
  /\ Querying(s, question, llm)
  /\ messages' =
       [messages EXCEPT ![s] =
          @ \o <<[role |-> "user", content |-> Answer("typed", question),
                  sources |-> <<>>],
                 [role |-> "assistant", content |-> response'.answer,
                  sources |-> response'.sources]>>]
  /\ UNCHANGED <<initialized, cached>>

\* main(), lines 247-252: the session's user presses the reset button.
Reset(s) ==
  /\ messages' = [messages EXCEPT ![s] = <<>>]
  /\ IF initialized[s]
       THEN ClearingMemory(s)
       ELSE UNCHANGED pipeline
  /\ UNCHANGED <<store, instance, last_search, earlier, tokenizer,
                 initialized, cached>>

\* No pipeline, no browser session yet.
InitChat ==
  /\ retriever = "none"
  /\ memory = <<>>
  /\ memory_session = <<>>
  /\ response = <<>>
  /\ raised = ""
  /\ prompt = <<>>
  /\ prompt_session = <<>>
  /\ last_clear = <<>>
  /\ messages = [s \in Sessions |-> <<>>]
  /\ initialized = [s \in Sessions |-> FALSE]
  /\ cached = <<>>

\* No HybridSearch instance yet, no call made.
InitInstance ==
  /\ state = "unbuilt"
  /\ dense_weight = 0
  /\ sparse_weight = 0
  /\ documents = <<>>
  /\ metadatas = <<>>
  /\ ids = <<>>
  /\ bm25 = <<>>
  /\ call = <<>>
  /\ dense_results = <<>>
  /\ sparse_results = <<>>
  /\ doc_scores = <<>>
  /\ results = <<>>
  /\ earlier = <<>>
  /\ error = ""
  /\ store_calls = 0
  /\ corpus_at_search = <<>>
  /\ filter_call = <<>>
  /\ filtered = <<>>
  /\ InitChat

Init ==
  /\ collection \in Collections
  /\ argsort_ties \in {"stable", "unstable"}
  /\ available = TRUE
  /\ last_store_op = "none"
  /\ tok_text = <<>>
  /\ tok_out = <<>>
  /\ InitInstance

Next ==
  \/ \E dw \in DenseWeights : Construct(dw)
  \/ \E query \in QueryNames, k \in Ks, rerank \in BOOLEAN : Search(query, k, rerank)

Spec == Init /\ [][Next]_vars

\* Repeated queries against one instance as the chatbot configures it
\* (dense_weight = 0.6, rerank left at its default), the caller comparing a
\* remembered result with a later one.
NextRepeat ==
  \/ Construct(DefaultWeight)
  \/ \E query \in QueryNames, k \in 1..MaxK : Search(query, k, TRUE)
  \/ Remember

SpecRepeat == Init /\ [][NextRepeat]_vars

\* A store that is filled, extended and cleared while an instance built
\* over it serves queries.
InitFresh ==
  /\ collection = EmptyCollection
  /\ argsort_ties \in {"stable", "unstable"}
  /\ available = TRUE
  /\ last_store_op = "none"
  /\ tok_text = <<>>
  /\ tok_out = <<>>
  /\ InitInstance

NextStore ==
  \/ \E texts \in Batches : AddDocuments(texts)
  \/ Clear
  \/ Construct(DefaultWeight)
  \/ \E query \in QueryNames : Search(query, MaxK, TRUE)
  \/ \E query \in QueryNames : SearchWithFilter(query, 1, <<>>)

SpecStore == InitFresh /\ [][NextStore]_vars

\* Queries against a store that can stop answering.
NextOutage ==
  \/ Construct(DefaultWeight)
  \/ Outage
  \/ Restore
  \/ \E query \in QueryNames, k \in 1..MaxK : Search(query, k, TRUE)

SpecOutage == Init /\ [][NextOutage]_vars

\* Instances constructed with whatever dense_weight the caller passes:
\* __init__ takes any float.  -5 and 15 stand for -0.5 and 1.5.
CallerWeights == DenseWeights \cup {-5, 15}

NextWeights ==
  \/ \E dw \in CallerWeights : Construct(dw)
  \/ \E query \in QueryNames : Search(query, 1, FALSE)
  \/ \E query \in QueryNames : SearchWithFilter(query, 1, <<>>)

SpecWeights == Init /\ [][NextWeights]_vars

\* The tokenizer on its own, over every short text, beside an instance
\* that is constructed over a one-chunk store.
InitTokenize ==
  /\ collection = add_batch(EmptyCollection, <<"T4">>, 1)
  /\ argsort_ties = "stable"
  /\ available = TRUE
  /\ last_store_op = "none"
  /\ tok_text \in TokenizerInputs
  /\ tok_out = <<>>
  /\ InitInstance

NextTokenize ==
  \/ Construct(DefaultWeight)
  \/ \E site \in {"build", "query"} : Tokenize(site)

SpecTokenize == InitTokenize /\ [][NextTokenize]_vars

\* The dense adapter on its own, over an instance built on a one-chunk store.
InitOneChunk ==
  /\ collection = add_batch(EmptyCollection, <<"T4">>, 1)
  /\ argsort_ties = "stable"
  /\ available = TRUE
  /\ last_store_op = "none"
  /\ tok_text = <<>>
  /\ tok_out = <<>>
  /\ InitInstance

NextAdapter ==
  \/ Construct(DefaultWeight)
  \/ \E docs \in StoreAnswers : DenseSearchOver(docs)

SpecAdapter == InitOneChunk /\ [][NextAdapter]_vars

\* search(query, k) and search_with_filter(query, k) without a filter, asked
\* of one instance and compared by the caller, over a corpus of three
\* chunks and over one of four (more than 3k for k = 1).
CompareCorpora == {<<"T4", "T1", "T3">>, <<"T4", "T1", "T2", "T3">>}

InitCompare ==
  /\ \E d \in CompareCorpora : collection = add_batch(EmptyCollection, d, 1)
  /\ argsort_ties \in {"stable", "unstable"}
  /\ available = TRUE
  /\ last_store_op = "none"
  /\ tok_text = <<>>
  /\ tok_out = <<>>
  /\ InitInstance

NextCompare ==
  \/ Construct(DefaultWeight)
  \/ \E k \in 1..MaxK : Search("qc", k, TRUE)
  \/ \E k \in 1..MaxK : SearchWithFilter("qc", k, <<>>)
  \/ Remember

SpecCompare == InitCompare /\ [][NextCompare]_vars

\* One pipeline and its caller; the store can be emptied or fail under it.
InitPipeline ==
  /\ \E d \in {<<"T3">>, <<"T4", "T3">>} :
       collection = add_batch(EmptyCollection, d, 1)
  /\ argsort_ties = "stable"
  /\ available = TRUE
  /\ last_store_op = "none"
  /\ tok_text = <<>>
  /\ tok_out = <<>>
  /\ InitInstance

NextPipeline ==
  \/ NewPipeline
  \/ \E question \in Questions, llm \in LLMOutcomes : Query(question, llm)
  \/ ClearMemory
  \/ Clear
  \/ Outage
  \/ Restore

SpecPipeline == InitPipeline /\ [][NextPipeline]_vars

\* Browser sessions of the Streamlit app over a store of one chunk.
InitSessions ==
  /\ collection = add_batch(EmptyCollection, <<"T4">>, 1)
  /\ argsort_ties = "stable"
  /\ available = TRUE
  /\ last_store_op = "none"
  /\ tok_text = <<>>
  /\ tok_out = <<>>
  /\ InitInstance

NextSessions ==
  \/ \E s \in Sessions : Open(s)
  \/ \E s \in Sessions, question \in Questions, llm \in LLMOutcomes :
       Ask(s, question, llm)
  \/ \E s \in Sessions : Reset(s)

SpecSessions == InitSessions /\ [][NextSessions]_vars

\* Filtered searches on one instance as the chatbot configures it.
NextFilter ==
  \/ Construct(DefaultWeight)
  \/ \E query \in QueryNames, k \in 1..MaxK, filter_dict \in Filters :
        SearchWithFilter(query, k, filter_dict)

SpecFilter == Init /\ [][NextFilter]_vars

(***************************************************************************)
(* Vocabulary of the properties.  Everything here is read off the state a  *)
(* search left behind: its call, its two candidate lists, its doc_scores   *)
(* and the list it returned.                                               *)
(***************************************************************************)
Searched == call # <<>>
AskedK == call[2]

Min(a, b) == IF a < b THEN a ELSE b

\* The first 100 characters of a document's text.
First100 ==
  table([t \in TextNames |-> SubSeq(TextOf[t], 1, Min(100, Len(TextOf[t])))])

Prefix100(doc) == First100[doc.page_content]

Candidates == dense_results \o sparse_results
CandidateKeys == {Prefix100(Candidates[i].doc) : i \in DOMAIN Candidates}

\* Position of the first candidate carrying the key, dense list first.
FirstSeen(key) ==
  CHOOSE i \in DOMAIN Candidates :
    /\ Prefix100(Candidates[i].doc) = key
    /\ \A j \in 1..(i - 1) : Prefix100(Candidates[j].doc) # key

\* The doc_scores entry of a returned document.
EntryOf(doc) ==
  doc_scores[CHOOSE i \in DOMAIN doc_scores :
               Prefix100(doc_scores[i].doc) = Prefix100(doc)]

\* dense_weight * dense + sparse_weight * sparse of an entry.
Weighted(entry) ==
  <<dense_weight * entry.dense_score[1] * entry.sparse_score[2]
      + sparse_weight * entry.sparse_score[1] * entry.dense_score[2],
    One * entry.dense_score[2] * entry.sparse_score[2]>>

ScoreOf(doc) == Weighted(EntryOf(doc))

\* C1: a search with k >= 0 returns at most k documents.
C1_AtMostK == Searched => Len(results) <= AskedK

\* A search that had more distinct candidates than k and returned k >= 1.
C1_Witness ==
  /\ Searched
  /\ AskedK >= 1
  /\ Cardinality(CandidateKeys) > AskedK
  /\ Len(results) = AskedK

\* Corpus positions whose chunk was fetched with a non-zero score by the dense
\* path or by the sparse path.
WithEvidence ==
  {i \in DOMAIN collection.documents :
     \E j \in DOMAIN Candidates :
        /\ Candidates[j].doc.page_content = collection.documents[i]
        /\ Candidates[j].score[1] # 0}

\* C2 as stated: with at least k documents having non-zero evidence, search
\* returns exactly k documents.
C2_ExactlyK_Original ==
  (Searched /\ Cardinality(WithEvidence) >= AskedK) => Len(results) = AskedK

\* C2 amended: search returns min(k, number of distinct 100-character keys
\* among the dense and sparse candidates) documents; exactly k whenever the
\* candidates carry at least k distinct keys.
C2_ExactlyK ==
  Searched => Len(results) = Min(AskedK, Cardinality(CandidateKeys))

\* At least k documents have evidence, yet two of them share a key and the
\* result is shorter than k.
C2_Witness ==
  /\ Searched
  /\ Cardinality(WithEvidence) >= AskedK
  /\ Len(results) < AskedK
  /\ Len(results) = Cardinality(CandidateKeys)

MaxOf(scores) ==
  IF scores = {} THEN Zero
  ELSE CHOOSE m \in scores : \A x \in scores : ~Less(m, x)

DenseWithKey(key) ==
  {dense_results[i].score : i \in {j \in DOMAIN dense_results :
                                     Prefix100(dense_results[j].doc) = key}}

SparseWithKey(key) ==
  {sparse_results[i].score : i \in {j \in DOMAIN sparse_results :
                                      Prefix100(sparse_results[j].doc) = key}}

\* C3 as stated: for each key, the dense component is the maximum similarity
\* among the dense results with that key (0 if none) and the sparse component
\* the maximum normalized score among the sparse results with it (0 if none).
C3_MaxPerKey ==
  Searched =>
    \A i \in DOMAIN doc_scores :
       /\ Same(doc_scores[i].dense_score,
               MaxOf(DenseWithKey(Prefix100(doc_scores[i].doc))))
       /\ Same(doc_scores[i].sparse_score,
               MaxOf(SparseWithKey(Prefix100(doc_scores[i].doc))))

\* C4: the returned list is in non-increasing order of
\* dense_weight * dense + sparse_weight * sparse, has one document per key,
\* and no candidate key left out scores higher than a returned one.
C4_RankedTopK ==
  Searched =>
    /\ \A r, t \in DOMAIN results :
          r < t => /\ ~Less(ScoreOf(results[r]), ScoreOf(results[t]))
                   /\ Prefix100(results[r]) # Prefix100(results[t])
    /\ \A r \in DOMAIN results : \E i \in DOMAIN doc_scores :
          doc_scores[i].doc = results[r]
    /\ \A i \in DOMAIN doc_scores :
          (\A r \in DOMAIN results : results[r] # doc_scores[i].doc)
            => /\ Len(results) = AskedK
               /\ \A r \in DOMAIN results :
                     ~Less(ScoreOf(results[r]), Weighted(doc_scores[i]))

\* The sort moved a later candidate ahead of an earlier one, and a candidate
\* of strictly lower score was cut off.
C4_Witness ==
  /\ Searched
  /\ \E r, t \in DOMAIN results :
        /\ r < t
        /\ Less(ScoreOf(results[t]), ScoreOf(results[r]))
        /\ FirstSeen(Prefix100(results[t])) < FirstSeen(Prefix100(results[r]))
  /\ \E i \in DOMAIN doc_scores :
        /\ \A r \in DOMAIN results : results[r] # doc_scores[i].doc
        /\ Less(Weighted(doc_scores[i]), ScoreOf(results[Len(results)]))

\* Position of a document's chunk in the corpus (insertion order).
CorpusIndex(doc) ==
  CHOOSE i \in DOMAIN collection.documents :
    collection.documents[i] = doc.page_content

C7_OneDocPerPrefix ==
  Searched =>
    /\ \A r, t \in DOMAIN results :
          Prefix100(results[r]) = Prefix100(results[t]) => r = t
    /\ \A i \in DOMAIN dense_results : \A j \in DOMAIN sparse_results :
          dense_results[i].doc.page_content = sparse_results[j].doc.page_content
          => LET key == Prefix100(dense_results[i].doc)
                 entries == {n \in DOMAIN doc_scores :
                               Prefix100(doc_scores[n].doc) = key}
                 returned == {r \in DOMAIN results : Prefix100(results[r]) = key}
             IN /\ Cardinality(entries) = 1
                /\ \A n \in entries :
                      /\ doc_scores[n].dense_score \in DenseWithKey(key)
                      /\ doc_scores[n].sparse_score \in SparseWithKey(key)
                      /\ doc_scores[n].dense_score[1] # 0
                      /\ doc_scores[n].sparse_score[1] # 0
                /\ Cardinality(returned) <= 1
                /\ Len(results) < AskedK => Cardinality(returned) = 1

\* A chunk found by both paths is returned, and another candidate with the
\* same first 100 characters but a different text was merged into its entry.
C7_Witness ==
  /\ Searched
  /\ \E i \in DOMAIN dense_results : \E j \in DOMAIN sparse_results :
        /\ dense_results[i].doc.page_content = sparse_results[j].doc.page_content
        /\ \E r \in DOMAIN results : results[r] = dense_results[i].doc
        /\ \E n \in DOMAIN Candidates :
              /\ Prefix100(Candidates[n].doc) = Prefix100(dense_results[i].doc)
              /\ Candidates[n].doc.page_content # dense_results[i].doc.page_content

\* The BM25 score array of the last call's query.
RawScores == bm25[QueryTokens[call[1]]]

DenseDistinct ==
  LET first == {i \in DOMAIN dense_results :
                  \A j \in 1..(i - 1) :
                     Prefix100(dense_results[j].doc) # Prefix100(dense_results[i].doc)}
  IN [r \in 1..Cardinality(first) |->
        dense_results[CHOOSE i \in first :
                        Cardinality({j \in first : j < i}) = r - 1].doc]

\* C9 as stated: with dense_weight = 1.0 the returned list is the dense result
\* list restricted to distinct keys and truncated to k.
C9_PureDenseOrder ==
  (Searched /\ dense_weight = One)
    => results = SubSeq(DenseDistinct, 1, Min(AskedK, Len(DenseDistinct)))

\* Position of a returned document's chunk in the sparse result list, 0 if absent.
SparsePos(doc) ==
  IF \E j \in DOMAIN sparse_results :
        sparse_results[j].doc.page_content = doc.page_content
    THEN CHOOSE j \in DOMAIN sparse_results :
           sparse_results[j].doc.page_content = doc.page_content
    ELSE 0

\* C10 as stated: with dense_weight = 0.0 the returned documents that the
\* sparse path found come in the order of the sparse result list, equal BM25
\* scores included.
C10_PureSparseOrder_Original ==
  (Searched /\ dense_weight = 0) =>
    \A r, t \in DOMAIN results :
       (r < t /\ SparsePos(results[r]) > 0 /\ SparsePos(results[t]) > 0)
         => SparsePos(results[r]) < SparsePos(results[t])

\* The sparse score _combine_results retains for a key: that of the last
\* sparse result carrying the key, 0 when there is none.
RetainedSparse(key) ==
  LET carrying == {j \in DOMAIN sparse_results :
                     Prefix100(sparse_results[j].doc) = key}
  IN IF carrying = {} THEN Zero
     ELSE sparse_results[CHOOSE j \in carrying : \A n \in carrying : n <= j].score

CarriedOnce(key) ==
  Cardinality({j \in DOMAIN sparse_results :
                 Prefix100(sparse_results[j].doc) = key}) = 1

\* C10 amended: with dense_weight = 0.0 the returned documents are in
\* non-increasing order of the sparse score retained for their key (0 for
\* what only the dense path found); documents of equal retained score come
\* in candidate order, dense results first; and two returned chunks of
\* different score, each the only sparse result of its key, come in the order
\* of the sparse result list.
C10_PureSparseOrder ==
  (Searched /\ dense_weight = 0) =>
    \A r, t \in DOMAIN results :
       r < t =>
         /\ ~Less(RetainedSparse(Prefix100(results[r])),
                  RetainedSparse(Prefix100(results[t])))
         /\ Same(RetainedSparse(Prefix100(results[r])),
                 RetainedSparse(Prefix100(results[t])))
            => FirstSeen(Prefix100(results[r])) < FirstSeen(Prefix100(results[t]))
         /\ ( /\ SparsePos(results[r]) > 0 /\ SparsePos(results[t]) > 0
              /\ CarriedOnce(Prefix100(results[r]))
              /\ CarriedOnce(Prefix100(results[t]))
              /\ ~Same(RetainedSparse(Prefix100(results[r])),
                       RetainedSparse(Prefix100(results[t]))) )
            => SparsePos(results[r]) < SparsePos(results[t])

\* With dense_weight = 0.0, two returned chunks of equal positive BM25 score
\* come out against the order of the sparse result list.
C10_Witness ==
  /\ Searched
  /\ dense_weight = 0
  /\ \E r, t \in DOMAIN results :
        /\ r < t
        /\ SparsePos(results[r]) > SparsePos(results[t])
        /\ SparsePos(results[t]) > 0
        /\ Same(RetainedSparse(Prefix100(results[r])),
                RetainedSparse(Prefix100(results[t])))

\* The filter of the last search_with_filter call, and what it asked for.
FilterK == filter_call[1]
FilterDict == filter_call[2]

Matching(doc) ==
  \A i \in DOMAIN FilterDict :
     /\ FilterDict[i][1] \in DOMAIN doc.metadata
     /\ doc.metadata[FilterDict[i][1]] = FilterDict[i][2]

\* C11: after search_with_filter with a non-empty filter_dict no error was
\* raised, every returned document carries the filter's value under every
\* filter key, every returned document is one the inner search returned, and
\* the list holds min(k, number of matching candidates) documents.
C11_FilterKept ==
  (filter_call # <<>> /\ FilterDict # <<>>) =>
    /\ error = ""
    /\ \A r \in DOMAIN filtered : Matching(filtered[r])
    /\ \A r \in DOMAIN filtered : \E n \in DOMAIN results : results[n] = filtered[r]
    /\ Len(filtered) <= FilterK
    /\ Len(filtered) =
         Min(FilterK, Cardinality({n \in DOMAIN results : Matching(results[n])}))

\* A filtered search came back short: fewer than k documents, at least one,
\* while the inner search had returned a document that does not match.
C11_Witness ==
  /\ filter_call # <<>>
  /\ FilterDict # <<>>
  /\ filtered # <<>>
  /\ Len(filtered) < FilterK
  /\ \E n \in DOMAIN results : ~Matching(results[n])

\* C12 as stated: whenever the instance served a query, the corpus its
\* sparse index holds was the store's corpus at that moment.
C12_SameCorpusWhenServing ==
  call # <<>> => corpus_at_search = documents

\* C13: a query is only ever served by a ready instance; the index is
\* assigned only in the step that takes the instance from unbuilt to ready;
\* a ready instance stays ready, with the snapshot and index it was built with.
C13_BuiltOnceBeforeServing ==
  /\ [](call # <<>> => state = "ready" /\ bm25 # <<>>)
  /\ [][bm25' # bm25 => (state = "unbuilt" /\ state' = "ready")]_vars
  /\ [][state = "ready"
          => (state' = "ready" /\ UNCHANGED <<documents, metadatas, ids, bm25>>)]_vars

\* A query was served after the store had changed under the ready instance.
C13_Witness ==
  /\ state = "ready"
  /\ call # <<>>
  /\ last_store_op # "none"
  /\ corpus_at_search # documents

\* C14: construction over a store holding no documents raises ValueError
\* and leaves no index, snapshot or served query behind; a ready instance
\* always holds a non-empty snapshot; and whether a construction fails is
\* decided by the store being empty at that moment.
C14_EmptyCorpusFailsFast ==
  /\ [](state = "ready" => documents # <<>>)
  /\ [](state = "failed"
          => (error = "ValueError" /\ bm25 = <<>> /\ documents = <<>> /\ call = <<>>))
  /\ [][(state = "unbuilt" /\ state' # "unbuilt")
          => (state' = "failed" <=> collection.documents = <<>>)]_vars

\* Construction failed over a store that clear() had emptied.
C14_Witness ==
  /\ state = "failed"
  /\ error = "ValueError"
  /\ last_store_op = "clear"

\* C15: a search made while similarity_search raises ends with that failure
\* at the caller: no list, one call to the store, the sparse path not run,
\* and the instance as it was.
C15_FailurePropagates ==
  /\ [](error = "StoreError"
          => (/\ results = <<>>
              /\ sparse_results = <<>>
              /\ doc_scores = <<>>
              /\ store_calls = 1
              /\ state = "ready"))
  /\ [][(state = "ready" /\ ~available /\ last_search' # last_search)
          => (error' = "StoreError" /\ UNCHANGED instance)]_vars

\* A search failed although the sparse index scores some chunk above 0 for
\* its query.
C15_Witness ==
  /\ error = "StoreError"
  /\ call # <<>>
  /\ \E i \in DOMAIN documents : RawScores[i] > 0

\* No chunk of the instance's corpus shares a token with the last query.
NoSharedToken ==
  \A i \in DOMAIN documents : ~SharesToken(call[1], documents[i])

\* C16 as stated: when the query shares no token with any corpus document,
\* no error is raised, the sparse list is empty and the returned list is the
\* dense candidates, one per key, in dense similarity order, truncated to k;
\* it is empty when the dense list is empty too.
C16_EmptyCandidatesServed ==
  (Searched /\ NoSharedToken) =>
    /\ error = ""
    /\ sparse_results = <<>>
    /\ results = SubSeq(DenseDistinct, 1, Min(AskedK, Len(DenseDistinct)))
    /\ dense_results = <<>> => results = <<>>

\* Dense result i is the chunk both paths rank highest: its similarity is
\* above every other dense result's, its BM25 score is positive and above
\* every other corpus position's, and no other candidate has its prefix.
BestOfBoth(i) ==
  /\ \A j \in DOMAIN dense_results :
        j # i => Less(dense_results[j].score, dense_results[i].score)
  /\ \E p \in DOMAIN documents :
        /\ documents[p] = dense_results[i].doc.page_content
        /\ RawScores[p] > 0
        /\ \A q \in DOMAIN documents : q # p => RawScores[q] < RawScores[p]
  /\ \A n \in DOMAIN Candidates :
        Prefix100(Candidates[n].doc) = Prefix100(dense_results[i].doc)
        => Candidates[n].doc.page_content = dense_results[i].doc.page_content

\* C17: with 0 < dense_weight < 1 and k >= 1, a chunk that has the highest
\* dense similarity and the highest, positive BM25 score, and shares its
\* 100-character prefix with no other candidate, is returned first.
C17_BestOfBothFirst ==
  (Searched /\ 0 < dense_weight /\ dense_weight < One /\ AskedK >= 1) =>
    \A i \in DOMAIN dense_results :
       BestOfBoth(i)
       => /\ results # <<>>
          /\ results[1].page_content = dense_results[i].doc.page_content

\* Such a chunk, inserted into the corpus after the others, comes first of
\* at least two returned documents, the other one found by both paths too.
C17_Witness ==
  /\ Searched
  /\ 0 < dense_weight
  /\ dense_weight < One
  /\ Len(results) >= 2
  /\ \E i \in DOMAIN dense_results :
        /\ BestOfBoth(i)
        /\ results[1].page_content = dense_results[i].doc.page_content
        /\ CorpusIndex(results[1]) > CorpusIndex(results[2])
        /\ SparsePos(results[2]) > 0

\* C18: once the constructor has set them, sparse_weight is 1 - dense_weight,
\* and no search or search_with_filter call changes either weight.
C18_WeightsFixedAtConstruction ==
  /\ [](state # "unbuilt" => sparse_weight = One - dense_weight)
  /\ [][state # "unbuilt" => UNCHANGED <<dense_weight, sparse_weight>>]_vars

\* A filtered search has been served by an instance of weights 0.6 and 0.4.
C18_Witness ==
  /\ state = "ready"
  /\ filter_call # <<>>
  /\ filtered # <<>>
  /\ dense_weight = 6
  /\ sparse_weight = 4

\* C19 as stated: a ready instance has both weights in [0, 1].
C19_WeightsInUnitInterval ==
  state = "ready" =>
    /\ 0 <= dense_weight /\ dense_weight <= One
    /\ 0 <= sparse_weight /\ sparse_weight <= One

Asked == IF call[3] THEN 3 * call[2] ELSE call[2]

PositivePositions == {p \in DOMAIN documents : RawScores[p] > 0}

\* C21: the dense list is the store's answer to a request for 3k chunks
\* with rerank and k without; the sparse list holds the positive-scoring
\* chunks among as many top positions, so at most that many; and the
\* returned list is cut to k.
C21_OverFetch ==
  Searched =>
    /\ dense_results = dense_search(call[1], Asked)
    /\ Len(dense_results) = Min(Asked, Len(collection.documents))
    /\ Len(sparse_results) <= Asked
    /\ Len(sparse_results) = Min(Asked, Cardinality(PositivePositions))
    /\ Len(results) = Min(AskedK, Cardinality(CandidateKeys))

\* A reranked search for k documents drew 3k from each path and returned k.
C21_Witness ==
  /\ Searched
  /\ call[3]
  /\ AskedK >= 1
  /\ Len(dense_results) = 3 * AskedK
  /\ Len(sparse_results) = 3 * AskedK
  /\ Len(results) = AskedK

\* C22: no step taken while the instance is ready changes documents,
\* metadatas, ids or the BM25 model; the only steps a ready instance takes
\* are search and search_with_filter calls (the store's own steps besides).
C22_SnapshotReadOnly ==
  [][state = "ready" => UNCHANGED <<documents, metadatas, ids, bm25>>]_vars

\* After a plain or filtered search that found something, the instance
\* still holds the snapshot of its build although the store has changed.
C22_Witness ==
  /\ state = "ready"
  /\ results # <<>>
  /\ last_store_op # "none"
  /\ documents # <<>>
  /\ collection.documents # documents
  /\ corpus_at_search = collection.documents
  /\ filter_call # <<>>

MatchingPositions == {n \in DOMAIN results : Matching(results[n])}

\* The position in the fused list of its r-th matching document.
NthMatch(r) ==
  CHOOSE n \in MatchingPositions :
    Cardinality({m \in MatchingPositions : m < n}) = r - 1

\* C23: the list search_with_filter returns is read off the fused list of a
\* reranked search for 2k documents: its r-th document is the r-th matching
\* document of that list, for r up to k.
C23_FilteredSubsequence ==
  filter_call # <<>> =>
    /\ call[2] = 2 * FilterK
    /\ call[3]
    /\ results = combine_results(dense_weight, sparse_weight, doc_scores,
                                 2 * FilterK)
    /\ filtered = [r \in 1..Min(FilterK, Cardinality(MatchingPositions)) |->
                     results[NthMatch(r)]]

\* Two documents were returned from around one that does not match.
C23_Witness ==
  /\ filter_call # <<>>
  /\ Len(filtered) = 2
  /\ \E n, m \in DOMAIN results :
        /\ n < m
        /\ ~Matching(results[n])
        /\ results[m] = filtered[2]

\* The distance the store reported for dense result i, 0 when it reported
\* none.
ReportedDistance(i) ==
  IF "distance" \in DOMAIN dense_results[i].doc.metadata
    THEN dense_results[i].doc.metadata.distance
    ELSE 0

\* C24: every dense result's similarity is 1/(1+d) for its distance d, with
\* d = 0 when its metadata has no distance; it lies in (0, 1], equals 1 at
\* d = 0, and of two results the one at the strictly smaller distance has
\* the strictly larger similarity.
C24_SimilarityOfDistance ==
  /\ \A i \in DOMAIN dense_results :
        /\ dense_results[i].score[1] * (1 + ReportedDistance(i))
             = dense_results[i].score[2]
        /\ dense_results[i].score[2] > 0
        /\ Less(Zero, dense_results[i].score)
        /\ ~Less(<<1, 1>>, dense_results[i].score)
        /\ ReportedDistance(i) = 0 => Same(dense_results[i].score, <<1, 1>>)
  /\ \A i, j \in DOMAIN dense_results :
        ReportedDistance(i) < ReportedDistance(j)
        => Less(dense_results[j].score, dense_results[i].score)

\* A chunk without a distance got similarity 1, ahead of a chunk at a
\* distance of 2 or more.
C24_Witness ==
  /\ Len(dense_results) = 2
  /\ "distance" \notin DOMAIN dense_results[1].doc.metadata
  /\ Same(dense_results[1].score, <<1, 1>>)
  /\ "distance" \in DOMAIN dense_results[2].doc.metadata
  /\ ReportedDistance(2) >= 2
  /\ Less(dense_results[2].score, dense_results[1].score)

\* The corpus position of sparse result j's text.
PositionOf(j) ==
  CHOOSE p \in DOMAIN documents : documents[p] = sparse_results[j].doc.page_content

\* C25: the sparse list holds at most the asked number of results, in
\* non-increasing BM25 score; each score is s/(s+1) for its BM25 score s and
\* lies strictly between 0 and 1; a strictly higher BM25 score has a
\* strictly higher normalized score.
C25_SparseListNormalized ==
  Searched =>
    /\ Len(sparse_results) <= Asked
    /\ \A j \in DOMAIN sparse_results :
          /\ sparse_results[j].score[1] = RawScores[PositionOf(j)]
          /\ sparse_results[j].score[2] = RawScores[PositionOf(j)] + 1
          /\ Less(Zero, sparse_results[j].score)
          /\ Less(sparse_results[j].score, <<1, 1>>)
    /\ \A i, j \in DOMAIN sparse_results :
          /\ i < j => RawScores[PositionOf(i)] >= RawScores[PositionOf(j)]
          /\ RawScores[PositionOf(i)] > RawScores[PositionOf(j)]
             => Less(sparse_results[j].score, sparse_results[i].score)

\* A sparse list of two chunks of different BM25 score, the higher first
\* although it comes later in the corpus.
C25_Witness ==
  /\ Searched
  /\ Len(sparse_results) >= 2
  /\ RawScores[PositionOf(1)] > RawScores[PositionOf(2)]
  /\ PositionOf(1) > PositionOf(2)
  /\ Less(sparse_results[2].score, sparse_results[1].score)

\* C26: every sparse result is the text at one position of the snapshot,
\* with the metadata at that position (an empty one past the end of the
\* metadata list) and the normalized BM25 score of that position.
C26_SparseResultAligned ==
  Searched =>
    \A j \in DOMAIN sparse_results :
       \E p \in DOMAIN documents :
          /\ sparse_results[j].doc.page_content = documents[p]
          /\ sparse_results[j].doc.metadata =
               (IF p <= Len(metadatas) THEN metadatas[p] ELSE <<>>)
          /\ sparse_results[j].doc.metadata.page = PageOf[documents[p]]
          /\ sparse_results[j].score = <<RawScores[p], RawScores[p] + 1>>

\* Two sparse results of different pages and different scores, listed
\* against corpus order.
C26_Witness ==
  /\ Searched
  /\ Len(sparse_results) >= 2
  /\ PositionOf(1) > PositionOf(2)
  /\ sparse_results[1].doc.metadata.page # sparse_results[2].doc.metadata.page
  /\ sparse_results[1].score # sparse_results[2].score

\* The caller remembers what search(query, k) returned and has now called
\* search_with_filter(query, k) without a filter.
ComparedUnfiltered ==
  /\ earlier # <<>>
  /\ filter_call # <<>>
  /\ FilterDict = <<>>
  /\ earlier[1] = <<call[1], FilterK, TRUE>>

\* C27 as stated: without a filter, search_with_filter(query, k) returns the
\* list search(query, k) returns.
C27_UnfilteredSameAsSearch_Original ==
  ComparedUnfiltered => filtered = earlier[2]

\* C27 amended: without a filter, search_with_filter(query, k) returns the
\* first k documents of search(query, 2k); that is the list of
\* search(query, k) when the corpus holds at most 3k chunks.
C27_UnfilteredIsPrefixOfDoubleFetch ==
  ComparedUnfiltered =>
    /\ filtered = SubSeq(results, 1, Min(FilterK, Len(results)))
    /\ call = <<earlier[1][1], 2 * FilterK, TRUE>>
    /\ Len(documents) <= 3 * FilterK => filtered = earlier[2]

\* Over a corpus of at most 3k chunks the two calls returned the same k
\* documents, the doubled fetch having returned more.
C27_Witness ==
  /\ ComparedUnfiltered
  /\ Len(documents) <= 3 * FilterK
  /\ Len(filtered) = FilterK
  /\ Len(results) > FilterK
  /\ filtered = earlier[2]

\* The memory holds question and answer in turn, a question first.
Alternating ==
  /\ Len(memory) % 2 = 0
  /\ \A i \in DOMAIN memory :
       memory[i].type = IF i % 2 = 1 THEN "human" ELSE "ai"

\* C28: the conversation memory always holds an even number of messages,
\* user question and assistant answer in turn; a query that retrieved
\* documents and got an answer from the LLM appends its question and then
\* that answer, any other query leaves the memory as it was, and clear_memory
\* empties it.
C28_MemoryAlternates ==
  /\ []Alternating
  /\ [][\A question \in Questions, llm \in LLMOutcomes :
          Query(question, llm) =>
            IF error' = "" /\ results' # <<>> /\ ~llm.raised
              THEN memory' = memory \o <<[type |-> "human", content |-> question],
                                         [type |-> "ai", content |-> llm.text]>>
              ELSE memory' = memory]_vars
  /\ [][ClearMemory => memory' = <<>>]_vars

\* A question and its answer are kept, a clear_memory call was made before
\* them, and the last query, which failed or found nothing, added nothing.
C28_Witness ==
  /\ Len(memory) = 2
  /\ last_clear # <<>>
  /\ response # <<>>
  /\ response.answer.kind \in {"error", "not_found"}

\* C29: query lets no exception through; when the hybrid search or the LLM
\* call raises, it returns the error message as its answer with no sources,
\* and when no document is retrieved it returns the 'not found' answer with
\* no sources and sends no prompt to the LLM.
C29_QueryNeverRaises ==
  /\ [](raised = "")
  /\ [][\A question \in Questions, llm \in LLMOutcomes :
          Query(question, llm) =>
            /\ error' # "" =>
                 response' = [answer |-> Answer("error", error'),
                              sources |-> <<>>]
            /\ (error' = "" /\ results' # <<>> /\ llm.raised) =>
                 response' = [answer |-> Answer("error", llm.text),
                              sources |-> <<>>]
            /\ (error' = "" /\ results' = <<>>) =>
                 /\ response' = [answer |-> Answer("not_found", ""),
                                 sources |-> <<>>]
                 /\ prompt' = <<>>]_vars

\* The hybrid search of the last query raised, and the query returned the
\* error as its answer.
C29_Witness ==
  /\ error = "StoreError"
  /\ response # <<>>
  /\ response.answer = Answer("error", "StoreError")
  /\ response.sources = <<>>
  /\ raised = ""

\* C30: the history in the prompt of a session's question holds only
\* messages that session's own questions added, and the reset button of a
\* session drops only messages of that session.
C30_HistoryOfOwnSession ==
  /\ prompt_session # <<>> =>
       \A i \in DOMAIN prompt_session[2] :
         prompt_session[2][i] = prompt_session[1]
  /\ last_clear # <<>> =>
       \A i \in DOMAIN last_clear[2] : last_clear[2][i] = last_clear[1]

====
